---------------------------- MODULE Spec2Model ----------------------------
(***************************************************************************)
(* The HTTP server of app/server.go: the route table built by main, the    *)
(* accept loop, and one handleConnection per accepted socket               *)
(* (Read, Router.ServeHTTP, the handlers, handleCompression,               *)
(* writeResponse, the deferred Close).                                     *)
(*                                                                         *)
(* A Go string is a sequence of one-character strings, so that             *)
(* strings.Split, strings.Fields, strings.SplitN, strings.ToLower and      *)
(* fmt.Sprintf act on the characters as they do in the program.            *)
(***************************************************************************)
EXTENDS Integers, Sequences, FiniteSets, TLC

VARIABLES
    mainpc,   \* where main is: "register", "listen", "accept" or "exit"
    nreg,     \* how many of main's HandleFunc calls have run
    routes,   \* Router.routes: key (method+path) -> handler
    conns,    \* the accepted connections, in accept order, with their goroutine
    fs        \* the files the handlers read and write: path -> content

vars == <<mainpc, nreg, routes, conns, fs>>

\* Character tables used by ToLower, Fields and Sprintd.
upper ==
    <<"A", "B", "C", "D", "E", "F", "G", "H", "I", "J", "K", "L", "M", "N",
      "O", "P", "Q", "R", "S", "T", "U", "V", "W", "X", "Y", "Z">>
lower ==
    <<"a", "b", "c", "d", "e", "f", "g", "h", "i", "j", "k", "l", "m", "n",
      "o", "p", "q", "r", "s", "t", "u", "v", "w", "x", "y", "z">>
digits ==
    <<"0", "1", "2", "3", "4", "5", "6", "7", "8", "9">>

\* String literals of server.go (line of first use in the comment of each user).
sGET ==
    <<"G", "E", "T">>
sPOST ==
    <<"P", "O", "S", "T">>
pRoot ==
    <<"/">>
pEcho ==
    <<"/", "e", "c", "h", "o">>
pUserAgent ==
    <<"/", "u", "s", "e", "r", "-", "a", "g", "e", "n", "t">>
pFiles ==
    <<"/", "f", "i", "l", "e", "s">>
sOK ==
    <<"O", "K">>
sNotFound ==
    <<"N", "o", "t", " ", "F", "o", "u", "n", "d">>
sCreated ==
    <<"C", "r", "e", "a", "t", "e", "d">>
sTextPlain ==
    <<"t", "e", "x", "t", "/", "p", "l", "a", "i", "n">>
sTextHtml ==
    <<"t", "e", "x", "t", "/", "h", "t", "m", "l">>
sOctetStream ==
    <<"a", "p", "p", "l", "i", "c", "a", "t", "i", "o", "n", "/", "o", "c",
      "t", "e", "t", "-", "s", "t", "r", "e", "a", "m">>
sUANotFound ==
    <<"U", "s", "e", "r", "-", "A", "g", "e", "n", "t", " ", "h", "e", "a",
      "d", "e", "r", " ", "n", "o", "t", " ", "f", "o", "u", "n", "d">>
sHello ==
    <<"<", "h", "1", ">", "H", "e", "l", "l", "o", " ", "W", "o", "r", "l",
      "d", "<", "/", "h", "1", ">">>
sSaved ==
    <<"s", "a", "v", "e", "d">>
sContentType ==
    <<"C", "o", "n", "t", "e", "n", "t", "-", "T", "y", "p", "e">>
sContentLength ==
    <<"C", "o", "n", "t", "e", "n", "t", "-", "L", "e", "n", "g", "t", "h">>
sContentEncoding ==
    <<"C", "o", "n", "t", "e", "n", "t", "-", "E", "n", "c", "o", "d", "i",
      "n", "g">>
sGzip ==
    <<"g", "z", "i", "p">>
sAcceptEncodingKey ==
    <<"a", "c", "c", "e", "p", "t", "-", "e", "n", "c", "o", "d", "i", "n",
      "g">>
sUserAgentKey ==
    <<"u", "s", "e", "r", "-", "a", "g", "e", "n", "t">>
sHTTP11 ==
    <<"H", "T", "T", "P", "/", "1", ".", "1", " ">>
sColonSpace ==
    <<":", " ">>
sCRLF ==
    <<"\r", "\n">>
sSlash ==
    <<"/">>
sSpace ==
    <<" ">>

\* The command line of the server and the file present when it starts.
sProg ==
    <<"s", "e", "r", "v", "e", "r">>
sDirFlag ==
    <<"-", "-", "d", "i", "r", "e", "c", "t", "o", "r", "y">>
sDir ==
    <<"/", "d", "/">>
nG ==
    <<"g">>

\* Error texts of os.ReadFile (the *PathError strings of the Go runtime).
sOpen ==
    <<"o", "p", "e", "n", " ">>
sRead ==
    <<"r", "e", "a", "d", " ">>
sNoSuch ==
    <<":", " ", "n", "o", " ", "s", "u", "c", "h", " ", "f", "i", "l", "e",
      " ", "o", "r", " ", "d", "i", "r", "e", "c", "t", "o", "r", "y">>
sIsDir ==
    <<":", " ", "i", "s", " ", "a", " ", "d", "i", "r", "e", "c", "t", "o",
      "r", "y">>

(***************************************************************************)
(* The string functions of the Go library that the server calls.           *)
(***************************************************************************)

\* unicode.IsSpace on the characters a request can hold.
IsSpace(c) ==
    c \in {" ", "\t", "\n", "\r", "\f"}

\* The strings: finite sequences of characters.
Str ==
    Seq(STRING)

\* strings.Index, counted from 1; 0 when sep does not occur in s.
Index(s, sep) ==
    LET hits == {i \in 1..(Len(s) - Len(sep) + 1) :
                    SubSeq(s, i, i + Len(sep) - 1) = sep}
    IN  IF hits = {} THEN 0
        ELSE CHOOSE i \in hits : \A j \in hits : i <= j

\* strings.Split(s, sep) for a non-empty sep.
SplitOf[s \in Str, sep \in Str] ==
    LET i == Index(s, sep)
    IN  IF i = 0 THEN <<s>>
        ELSE <<SubSeq(s, 1, i - 1)>>
             \o SplitOf[SubSeq(s, i + Len(sep), Len(s)), sep]

Split(s, sep) ==
    SplitOf[s, sep]

\* strings.SplitN(s, sep, 2).
SplitN2Of[s \in Str, sep \in Str] ==
    LET i == Index(s, sep)
    IN  IF i = 0 THEN <<s>>
        ELSE <<SubSeq(s, 1, i - 1), SubSeq(s, i + Len(sep), Len(s))>>

SplitN2(s, sep) ==
    SplitN2Of[s, sep]

\* strings.Fields: the maximal runs of non-space characters. cur is the run
\* being read and acc the fields found so far.
FieldsFrom[s \in Str, cur \in Str, acc \in Seq(Str)] ==
    IF s = <<>> THEN (IF cur = <<>> THEN acc ELSE Append(acc, cur))
    ELSE IF IsSpace(Head(s))
         THEN FieldsFrom[Tail(s), <<>>,
                         IF cur = <<>> THEN acc ELSE Append(acc, cur)]
         ELSE FieldsFrom[Tail(s), Append(cur, Head(s)), acc]

Fields(s) ==
    FieldsFrom[s, <<>>, <<>>]

\* strings.ToLower on ASCII.
LowerChar(c) ==
    IF \E k \in 1..Len(upper) : upper[k] = c
    THEN lower[CHOOSE k \in 1..Len(upper) : upper[k] = c]
    ELSE c

ToLowerOf[s \in Str] ==
    [i \in 1..Len(s) |-> LowerChar(s[i])]

ToLower(s) ==
    ToLowerOf[s]

\* fmt.Sprintf("%d", n) for n >= 0.
SprintdOf[n \in Nat] ==
    IF n < 10 THEN <<digits[n + 1]>>
    ELSE SprintdOf[n \div 10] \o <<digits[(n % 10) + 1]>>

Sprintd(n) ==
    SprintdOf[n]

\* Concatenation of a sequence of strings (strings.Builder.WriteString).
ConcatOf[ss \in Seq(Str)] ==
    IF ss = <<>> THEN <<>> ELSE Head(ss) \o ConcatOf[Tail(ss)]

Concat(ss) ==
    ConcatOf[ss]

(***************************************************************************)
(* The program.                                                            *)
(***************************************************************************)

\* buf := make([]byte, 1024)
BufSize ==
    1024

\* os.Args as the server is started: server --directory /d/
Args ==
    <<sProg, sDirFlag, sDir>>

\* dirPath of filesGetHandler and filesPostHandler (os.Args[2], or "").
dirPath ==
    IF Len(Args) < 3 THEN <<>> ELSE Args[3]

\* The zero value of a Go map, and of Response.
EmptyMap ==
    <<>>

ZeroResponse ==
    [statusCode |-> 0, reason |-> <<>>, contentType |-> <<>>, body |-> <<>>]

\* type Response struct
Response(statusCode, reason, contentType, body) ==
    [statusCode |-> statusCode, reason |-> reason,
     contentType |-> contentType, body |-> body]

\* type httpHeader struct
httpHeader(name, value) ==
    [name |-> name, value |-> value]

\* func (h *httpHeader) String()
HeaderString(h) ==
    h.name \o sColonSpace \o h.value \o sCRLF

\* func writeResponse: the bytes handed to conn.Write.
writeResponse(statusCode, statusReason, body, headers) ==
    sHTTP11 \o Sprintd(statusCode) \o sSpace \o statusReason \o sCRLF
    \o Concat([i \in 1..Len(headers) |-> HeaderString(headers[i])])
    \o sCRLF \o body \o sCRLF

\* func parseHeaders: the map after the loop has run over headerLines is the
\* map after all lines but the last, with the assignment the last line makes
\* (none for an empty line or a line without ": ").
parseHeadersOf[headerLines \in Seq(Str)] ==
    IF headerLines = <<>> THEN EmptyMap
    ELSE LET n == Len(headerLines)
             line == headerLines[n]
             parts == SplitN2(line, sColonSpace)
             headers == parseHeadersOf[SubSeq(headerLines, 1, n - 1)]
         IN  IF line = <<>> \/ Len(parts) # 2 THEN headers
             ELSE (ToLower(parts[1]) :> ToLower(parts[2])) @@ headers

parseHeaders(headerLines) ==
    parseHeadersOf[headerLines]

\* os.ReadFile on the model's files: the directory itself cannot be read.
ReadFile(files, path) ==
    IF path \in DOMAIN files THEN [err |-> FALSE, data |-> files[path]]
    ELSE IF path = dirPath THEN [err |-> TRUE, data |-> sRead \o path \o sIsDir]
    ELSE [err |-> TRUE, data |-> sOpen \o path \o sNoSuch]

\* os.WriteFile: creates or overwrites; fails (files unchanged) on the
\* directory. The write is taken as one step: the properties below concern
\* reads that follow a handled write.
WriteFile(files, path, data) ==
    IF path = dirPath THEN files ELSE (path :> data) @@ files

\* The handlers: each returns its Response and the files it leaves.
mainPageHandler(r, files) ==
    [res |-> Response(200, sOK, sTextHtml, sHello), files |-> files]

\* echoHandler accepting three segments or more.
echoHandlerLoose(r, files) ==
    LET pathParts == Split(r.path, sSlash)
    IN  [res |-> IF Len(pathParts) >= 3
                 THEN Response(200, sOK, sTextPlain, pathParts[3])
                 ELSE Response(404, sNotFound, sTextPlain, sNotFound),
         files |-> files]

echoHandler(r, files) ==
    LET pathParts == Split(r.path, sSlash)
    IN  [res |-> IF Len(pathParts) = 3
                 THEN Response(200, sOK, sTextPlain, pathParts[3])
                 ELSE Response(404, sNotFound, sTextPlain, sNotFound),
         files |-> files]

userAgentHandler(r, files) ==
    [res |-> IF sUserAgentKey \notin DOMAIN r.headers
             THEN Response(400, sNotFound, sTextPlain, sUANotFound)
             ELSE Response(200, sOK, sTextPlain, r.headers[sUserAgentKey]),
     files |-> files]

filesGetHandler(r, files) ==
    LET pathParts == Split(r.path, sSlash)
        got == ReadFile(files, dirPath \o pathParts[3])
    IN  [res |-> IF Len(pathParts) = 3
                 THEN IF got.err
                      THEN Response(404, sNotFound, sTextPlain, got.data)
                      ELSE Response(200, sOK, sOctetStream, got.data)
                 ELSE Response(404, sNotFound, sTextPlain, sNotFound),
         files |-> files]

filesPostHandler(r, files) ==
    LET pathParts == Split(r.path, sSlash)
    IN  IF Len(pathParts) = 3
        THEN [res |-> Response(201, sCreated, sTextPlain, sSaved),
              files |-> WriteFile(files, dirPath \o pathParts[3], r.body)]
        ELSE [res |-> Response(404, sNotFound, sTextPlain, sNotFound),
              files |-> files]

\* The call handler(&req) of ServeHTTP, the handler being a name here.
Call(handler, r, files) ==
    CASE handler = "mainPageHandler"  -> mainPageHandler(r, files)
      [] handler = "echoHandler"      -> echoHandler(r, files)
      [] handler = "userAgentHandler" -> userAgentHandler(r, files)
      [] handler = "filesGetHandler"  -> filesGetHandler(r, files)
      [] handler = "filesPostHandler" -> filesPostHandler(r, files)

\* The five router.HandleFunc calls of main, in order.
Registrations ==
    <<[method |-> sGET,  path |-> pRoot,      handler |-> "mainPageHandler"],
      [method |-> sGET,  path |-> pEcho,      handler |-> "echoHandler"],
      [method |-> sGET,  path |-> pUserAgent, handler |-> "userAgentHandler"],
      [method |-> sGET,  path |-> pFiles,     handler |-> "filesGetHandler"],
      [method |-> sPOST, path |-> pFiles,     handler |-> "filesPostHandler"]>>

\* func (r *Router) HandleFunc: r.routes[method+path] = handler
HandleFunc(table, method, path, handler) ==
    ((method \o path) :> handler) @@ table

\* RouteKey with the method forgotten: every method is looked up as GET.
RouteKeyAnyMethod(method, pathParts) ==
    sGET \o sSlash \o pathParts[2]

\* The key ServeHTTP looks up: method+"/"+pathParts[1].
RouteKey(method, pathParts) ==
    method \o sSlash \o pathParts[2]

\* func handleCompression: the headers it leaves in *h.
handleCompression(r, h) ==
    IF sAcceptEncodingKey \notin DOMAIN r.headers
       \/ ToLower(r.headers[sAcceptEncodingKey]) # sGzip
    THEN h
    ELSE Append(h, httpHeader(sContentEncoding, sGzip))

\* ContentHeaders counting the CRLF that writeResponse puts after the body.
ContentHeadersCountingCRLF(res) ==
    <<httpHeader(sContentType, res.contentType),
      httpHeader(sContentLength, Sprintd(Len(res.body \o sCRLF)))>>

\* headersToWrite of ServeHTTP before handleCompression.
ContentHeaders(res) ==
    <<httpHeader(sContentType, res.contentType),
      httpHeader(sContentLength, Sprintd(Len(res.body)))>>

(***************************************************************************)
(* The requests the clients send, built from a few methods, targets,       *)
(* header lines and bodies.                                                *)
(***************************************************************************)

\* How many connections main accepts.
MaxConns ==
    2

\* How many header lines a request carries at most.
MaxHeaders ==
    2

sPUT ==
    <<"P", "U", "T">>
sProto ==
    <<"H", "T", "T", "P", "/", "1", ".", "1">>
tEchoAb ==
    <<"/", "e", "c", "h", "o", "/", "a", "b">>
tEchoEmpty ==
    <<"/", "e", "c", "h", "o", "/">>
tEchoDeep ==
    <<"/", "e", "c", "h", "o", "/", "a", "/", "b">>
tFilesF ==
    <<"/", "f", "i", "l", "e", "s", "/", "f">>
tFilesG ==
    <<"/", "f", "i", "l", "e", "s", "/", "g">>
tFilesNone ==
    <<"/", "f", "i", "l", "e", "s", "/">>
tNope ==
    <<"/", "n", "o", "p", "e">>
tNoSlash ==
    <<"f", "o", "o">>
tRelEcho ==
    <<"x", "/", "e", "c", "h", "o">>
hUserAgent ==
    <<"U", "s", "e", "r", "-", "A", "g", "e", "n", "t", ":", " ", "A", "b">>
hGzip ==
    <<"A", "c", "c", "e", "p", "t", "-", "E", "n", "c", "o", "d", "i", "n",
      "g", ":", " ", "g", "z", "i", "p">>
hDeflateGzip ==
    <<"A", "c", "c", "e", "p", "t", "-", "E", "n", "c", "o", "d", "i", "n",
      "g", ":", " ", "d", "e", "f", "l", "a", "t", "e", ",", " ", "g", "z",
      "i", "p">>
hBr ==
    <<"A", "c", "c", "e", "p", "t", "-", "E", "n", "c", "o", "d", "i", "n",
      "g", ":", " ", "b", "r">>
bHi ==
    <<"h", "i">>
bTwoLines ==
    <<"a", "\r", "\n", "b">>
bHeaderLike ==
    <<"U", "s", "e", "r", "-", "A", "g", "e", "n", "t", ":", " ", "z", "z">>
bXy ==
    <<"x", "y">>

Methods ==
    {sGET, sPOST, sPUT}

Targets ==
    {pRoot, pEcho, tEchoAb, tEchoEmpty, tEchoDeep, pUserAgent, tFilesF,
     tFilesG, tFilesNone, tNope, tNoSlash, tRelEcho}

HeaderLines ==
    {hUserAgent, hGzip, hDeflateGzip, hBr}

Bodies ==
    {<<>>, bHi, bTwoLines, bHeaderLike}

\* The bytes of a request: request line, header lines, blank line, body.
RawRequest(method, target, headerLines, body) ==
    method \o sSpace \o target \o sSpace \o sProto \o sCRLF
    \o Concat([i \in 1..Len(headerLines) |-> headerLines[i] \o sCRLF])
    \o sCRLF \o body

\* Requests whose first line has fewer than two fields.
ShortRequests ==
    {<<>>, sGET \o sCRLF \o sCRLF}

HeaderSeqs ==
    UNION {[1..k -> HeaderLines] : k \in 0..MaxHeaders}

Requests ==
    {RawRequest(m, t, hs, b) :
        m \in Methods, t \in Targets, hs \in HeaderSeqs, b \in Bodies}
    \cup ShortRequests

\* The requests of the runs with several connections.
FewRequests ==
    {RawRequest(sPOST, tFilesF, <<>>, bHi),
     RawRequest(sPOST, tFilesF, <<>>, bTwoLines),
     RawRequest(sGET, tFilesF, <<>>, <<>>),
     RawRequest(sGET, tEchoAb, <<hGzip>>, <<>>),
     RawRequest(sPUT, tNope, <<>>, <<>>),
     RawRequest(sGET, tNoSlash, <<>>, <<>>),
     sGET \o sCRLF \o sCRLF}

\* The requests of the runs under fair scheduling.
FairRequests ==
    {RawRequest(sPOST, tFilesF, <<>>, bHi),
     RawRequest(sGET, tEchoAb, <<hGzip>>, <<>>),
     RawRequest(sPUT, tNope, <<>>, <<>>),
     RawRequest(sGET, tNoSlash, <<>>, <<>>),
     sGET \o sCRLF \o sCRLF}

(***************************************************************************)
(* State and steps.                                                        *)
(***************************************************************************)

\* A connection as Accept returns it, with the locals of its goroutine.
NewConn ==
    [pc |-> "Accepted", nread |-> 0, rdErr |-> FALSE, request |-> <<>>,
     method |-> <<>>,
     req |-> [path |-> <<>>, headers |-> EmptyMap, body |-> <<>>],
     res |-> ZeroResponse, headersToWrite |-> <<>>, out |-> <<>>]

Init ==
    /\ mainpc = "register"
    /\ nreg = 0
    /\ routes = EmptyMap
    /\ conns = <<>>
    /\ fs = ((dirPath \o nG) :> bXy)

\* main: the next router.HandleFunc call; after the last one, on to net.Listen.
Register ==
    /\ mainpc = "register"
    /\ LET reg == Registrations[nreg + 1]
       IN  routes' = HandleFunc(routes, reg.method, reg.path, reg.handler)
    /\ nreg' = nreg + 1
    /\ mainpc' = IF nreg + 1 = Len(Registrations) THEN "listen" ELSE "register"
    /\ UNCHANGED <<conns, fs>>

\* main: net.Listen succeeds, or fails and the process exits.
Listen ==
    /\ mainpc = "listen"
    /\ mainpc' \in {"accept", "exit"}
    /\ UNCHANGED <<nreg, routes, conns, fs>>

\* Accept that also registers a route, once the loop runs.
AcceptRegistering(limit) ==
    /\ mainpc = "accept"
    /\ Len(conns) < limit
    /\ conns' = Append(conns, NewConn)
    /\ routes' = HandleFunc(routes, sPUT, pEcho, "echoHandler")
    /\ UNCHANGED <<mainpc, nreg, fs>>

\* main: l.Accept() returns a connection and go handleConnection starts.
\* (An Accept error prints and continues: no state changes.)
Accept(limit) ==
    /\ mainpc = "accept"
    /\ Len(conns) < limit
    /\ conns' = Append(conns, NewConn)
    /\ UNCHANGED <<mainpc, nreg, routes, fs>>

\* handleConnection: the one conn.Read. On an error it returns, and the
\* deferred conn.Close() runs.
Read(c, arriving) ==
    /\ c \in DOMAIN conns
    /\ conns[c].pc = "Accepted"
    /\ \/ \E r \in arriving :
            conns' = [conns EXCEPT ![c].pc = "Read", ![c].nread = 1,
                         ![c].request =
                             SubSeq(r, 1, IF Len(r) < BufSize THEN Len(r)
                                          ELSE BufSize)]
       \/ conns' = [conns EXCEPT ![c].pc = "Closed", ![c].nread = 1,
                        ![c].rdErr = TRUE]
    /\ UNCHANGED <<mainpc, nreg, routes, fs>>

\* Decode answering a request line of fewer than two fields with a 400.
DecodeReplies400(c) ==
    /\ c \in DOMAIN conns
    /\ conns[c].pc = "Read"
    /\ LET parts == Split(conns[c].request, sCRLF)
           lineFields == Fields(parts[1])
           pathParts == Split(lineFields[2], sSlash)
       IN  IF Len(lineFields) < 2
           THEN conns' = [conns EXCEPT ![c].pc = "Closed",
                              ![c].out = Append(@,
                                  writeResponse(400, sNotFound, <<>>, <<>>))]
           ELSE IF Len(pathParts) < 2
           THEN conns' = [conns EXCEPT ![c].pc = "Closed"]
           ELSE conns' = [conns EXCEPT ![c].pc = "Decoded",
                              ![c].method = lineFields[1],
                              ![c].req = [path |-> lineFields[2],
                                          headers |-> parseHeaders(Tail(parts)),
                                          body |-> parts[Len(parts)]]]
    /\ UNCHANGED <<mainpc, nreg, routes, fs>>

\* ServeHTTP up to the route lookup: split the request, take method, path,
\* headers and body; the two early returns close the connection.
Decode(c) ==
    /\ c \in DOMAIN conns
    /\ conns[c].pc = "Read"
    /\ LET parts == Split(conns[c].request, sCRLF)
           lineFields == Fields(parts[1])
           method == lineFields[1]
           path == lineFields[2]
           headers == parseHeaders(Tail(parts))
           body == parts[Len(parts)]
           pathParts == Split(path, sSlash)
       IN  IF Len(parts) < 1 \/ Len(lineFields) < 2
           THEN conns' = [conns EXCEPT ![c].pc = "Closed"]
           ELSE IF Len(pathParts) < 2
           THEN conns' = [conns EXCEPT ![c].pc = "Closed"]
           ELSE conns' = [conns EXCEPT ![c].pc = "Decoded",
                              ![c].method = method,
                              ![c].req = [path |-> path, headers |-> headers,
                                          body |-> body]]
    /\ UNCHANGED <<mainpc, nreg, routes, fs>>

\* ServeHTTP: look the route up; write the 404 when there is none, call the
\* handler otherwise.
Route(c) ==
    /\ c \in DOMAIN conns
    /\ conns[c].pc = "Decoded"
    /\ LET key == RouteKey(conns[c].method, Split(conns[c].req.path, sSlash))
       IN  IF key \notin DOMAIN routes
           THEN /\ conns' = [conns EXCEPT ![c].pc = "Encoded",
                                ![c].out = Append(@,
                                    writeResponse(404, sNotFound, <<>>, <<>>))]
                /\ fs' = fs
           ELSE LET r == Call(routes[key], conns[c].req, fs)
                IN  /\ conns' = [conns EXCEPT ![c].pc = "Routed",
                                     ![c].res = r.res]
                    /\ fs' = r.files
    /\ UNCHANGED <<mainpc, nreg, routes>>

\* ServeHTTP: headersToWrite, then handleCompression.
Negotiate(c) ==
    /\ c \in DOMAIN conns
    /\ conns[c].pc = "Routed"
    /\ conns' = [conns EXCEPT ![c].pc = "Negotiated",
                     ![c].headersToWrite =
                         handleCompression(conns[c].req,
                                           ContentHeaders(conns[c].res))]
    /\ UNCHANGED <<mainpc, nreg, routes, fs>>

\* Encode writing the response twice.
EncodeTwice(c) ==
    /\ c \in DOMAIN conns
    /\ conns[c].pc = "Negotiated"
    /\ LET w == writeResponse(conns[c].res.statusCode, conns[c].res.reason,
                              conns[c].res.body, conns[c].headersToWrite)
       IN  conns' = [conns EXCEPT ![c].pc = "Encoded",
                         ![c].out = Append(Append(@, w), w)]
    /\ UNCHANGED <<mainpc, nreg, routes, fs>>

\* ServeHTTP: writeResponse, the one conn.Write of the handler's response.
Encode(c) ==
    /\ c \in DOMAIN conns
    /\ conns[c].pc = "Negotiated"
    /\ conns' = [conns EXCEPT ![c].pc = "Encoded",
                     ![c].out = Append(@,
                         writeResponse(conns[c].res.statusCode,
                                       conns[c].res.reason, conns[c].res.body,
                                       conns[c].headersToWrite))]
    /\ UNCHANGED <<mainpc, nreg, routes, fs>>

\* handleConnection returns: the deferred conn.Close().
Close(c) ==
    /\ c \in DOMAIN conns
    /\ conns[c].pc = "Encoded"
    /\ conns' = [conns EXCEPT ![c].pc = "Closed"]
    /\ UNCHANGED <<mainpc, nreg, routes, fs>>

\* The steps of connection c's goroutine after its read has returned.
Serve(c) ==
    Decode(c) \/ Route(c) \/ Negotiate(c) \/ Encode(c) \/ Close(c)

\* Several connections served concurrently.
Next ==
    \/ Register
    \/ Listen
    \/ Accept(MaxConns)
    \/ \E c \in 1..MaxConns : Read(c, FewRequests)
    \/ \E c \in 1..MaxConns : Decode(c)
    \/ \E c \in 1..MaxConns : Route(c)
    \/ \E c \in 1..MaxConns : Negotiate(c)
    \/ \E c \in 1..MaxConns : Encode(c)
    \/ \E c \in 1..MaxConns : Close(c)

Spec ==
    Init /\ [][Next]_vars

\* Several connections served concurrently, under fair scheduling of their
\* goroutines. The Read of a connection returns when its client has sent or
\* closed, which no fairness of the server gives.
NextFair ==
    \/ Register
    \/ Listen
    \/ Accept(MaxConns)
    \/ \E c \in 1..MaxConns : Read(c, FairRequests)
    \/ \E c \in 1..MaxConns : Serve(c)

FairSpec ==
    Init /\ [][NextFair]_vars /\ \A c \in 1..MaxConns : WF_vars(Serve(c))

\* One connection, every request of Requests.
NextRequests ==
    \/ Register
    \/ Listen
    \/ Accept(1)
    \/ Read(1, Requests)
    \/ Decode(1)
    \/ Route(1)
    \/ Negotiate(1)
    \/ Encode(1)
    \/ Close(1)

SpecRequests ==
    Init /\ [][NextRequests]_vars

(***************************************************************************)
(* Reading a request and a response as a client does.                      *)
(***************************************************************************)

s200 ==
    <<"2", "0", "0">>
s400 ==
    <<"4", "0", "0">>
s404 ==
    <<"4", "0", "4">>

\* The fields of the request line of the bytes connection c read.
SentLine(c) ==
    Fields(Split(conns[c].request, sCRLF)[1])

SentMethod(c) ==
    SentLine(c)[1]

SentTarget(c) ==
    SentLine(c)[2]

\* The header lines of a request: the lines after the request line, up to
\* the first empty line.
UpToBlank[lines \in Seq(Str)] ==
    IF lines = <<>> \/ Head(lines) = <<>> THEN <<>>
    ELSE <<Head(lines)>> \o UpToBlank[Tail(lines)]

SentHeaderLines(c) ==
    UpToBlank[Tail(Split(conns[c].request, sCRLF))]

\* The values the header lines give for a (lowercase) header name.
SentHeaderValues(c, name) ==
    {SplitN2(SentHeaderLines(c)[i], sColonSpace)[2] :
        i \in {j \in 1..Len(SentHeaderLines(c)) :
                  LET p == SplitN2(SentHeaderLines(c)[j], sColonSpace)
                  IN  Len(p) = 2 /\ ToLower(p[1]) = name}}

\* The body of a request: the bytes after the first empty line.
SentBody(c) ==
    LET i == Index(conns[c].request, sCRLF \o sCRLF)
    IN  IF i = 0 THEN <<>>
        ELSE SubSeq(conns[c].request, i + 4, Len(conns[c].request))

\* Connection c has a response on the wire.
Answered(c) ==
    conns[c].out # <<>>

\* The bytes written to connection c.
Wire(c) ==
    conns[c].out[1]

\* Status line and header lines of a response: the lines before the first
\* empty line.
WireHead(w) ==
    Split(SubSeq(w, 1, Index(w, sCRLF \o sCRLF) - 1), sCRLF)

WireStatus(w) ==
    Fields(WireHead(w)[1])[2]

WireHeaderLines(w) ==
    Tail(WireHead(w))

WireHeaderValues(w, name) ==
    {SplitN2(WireHeaderLines(w)[i], sColonSpace)[2] :
        i \in {j \in 1..Len(WireHeaderLines(w)) :
                  SplitN2(WireHeaderLines(w)[j], sColonSpace)[1] = name}}

\* The body of a response: what lies between the empty line and the CRLF that
\* ends the response.
WireBody(w) ==
    SubSeq(w, Index(w, sCRLF \o sCRLF) + 4, Len(w) - 2)

(***************************************************************************)
(* The properties.                                                         *)
(***************************************************************************)

\* The five routes main registers, as (method, "/" + first path segment).
RegisteredRoutes ==
    {<<sGET, pRoot>>, <<sGET, pEcho>>, <<sGET, pUserAgent>>,
     <<sGET, pFiles>>, <<sPOST, pFiles>>}

\* The first path segment of a target: the text between its first "/" and
\* the next one. A target without "/" has none.
HasSegment(target) ==
    Len(Split(target, sSlash)) >= 2

FirstSegment(target) ==
    Split(target, sSlash)[2]

\* Connection c read a request line of two fields or more.
HasRequestLine(c) ==
    /\ ~conns[c].rdErr
    /\ conns[c].pc # "Accepted"
    /\ Len(SentLine(c)) >= 2

RegisteredRoute(c) ==
    /\ HasSegment(SentTarget(c))
    /\ <<SentMethod(c), sSlash \o FirstSegment(SentTarget(c))>>
           \in RegisteredRoutes

\* The response of an unknown route: 404 Not Found, no header, empty body.
NotFoundEmpty(c) ==
    /\ Len(conns[c].out) = 1
    /\ WireHead(Wire(c)) = <<sHTTP11 \o s404 \o sSpace \o sNotFound>>
    /\ WireBody(Wire(c)) = <<>>

\* C1 as stated: every request whose (method, first path segment) is not a
\* registered route is answered with the empty 404, whatever its target.
C1_Original ==
    \A c \in DOMAIN conns :
        (conns[c].pc = "Closed" /\ HasRequestLine(c) /\ ~RegisteredRoute(c))
            => NotFoundEmpty(c)

\* C1 amended: a request line of at least two fields whose (method, first
\* path segment) is not a registered route is answered with the empty 404
\* when its target contains a "/", and with nothing when it contains none.
C1_Amended ==
    \A c \in DOMAIN conns :
        (conns[c].pc = "Closed" /\ HasRequestLine(c) /\ ~RegisteredRoute(c))
            => IF HasSegment(SentTarget(c)) THEN NotFoundEmpty(c)
               ELSE conns[c].out = <<>>

C1_Witness ==
    \E c \in DOMAIN conns :
        /\ conns[c].pc = "Closed"
        /\ HasRequestLine(c)
        /\ SentMethod(c) = sPUT
        /\ SentTarget(c) = tEchoAb
        /\ SentHeaderValues(c, sAcceptEncodingKey) = {sGzip}
        /\ NotFoundEmpty(c)

\* The path is /echo/<value>, <value> without "/".
IsEchoValuePath(p) ==
    /\ Len(p) >= Len(pEcho) + 1
    /\ SubSeq(p, 1, Len(pEcho) + 1) = pEcho \o sSlash
    /\ \A i \in (Len(pEcho) + 2)..Len(p) : p[i] # "/"

EchoValue(p) ==
    SubSeq(p, Len(pEcho) + 2, Len(p))

\* C2: GET /echo/<value>, <value> without "/", is answered 200, text/plain,
\* Content-Length the length of <value>, body <value>; a GET routed to the
\* echo handler whose path is not of exactly 3 segments is answered 404 with
\* body "Not Found".
C2_Echo ==
    \A c \in DOMAIN conns :
        (Answered(c) /\ SentMethod(c) = sGET) =>
            LET t == SentTarget(c)
                w == Wire(c)
            IN  /\ IsEchoValuePath(t) =>
                    /\ WireStatus(w) = s200
                    /\ WireHeaderValues(w, sContentType) = {sTextPlain}
                    /\ WireHeaderValues(w, sContentLength)
                           = {Sprintd(Len(EchoValue(t)))}
                    /\ WireBody(w) = EchoValue(t)
                /\ ( /\ HasSegment(t)
                     /\ sSlash \o FirstSegment(t) = pEcho
                     /\ Len(Split(t, sSlash)) # 3 ) =>
                    /\ WireStatus(w) = s404
                    /\ WireBody(w) = sNotFound

C2_Witness ==
    \E c \in DOMAIN conns :
        /\ Answered(c)
        /\ SentMethod(c) = sGET
        /\ SentTarget(c) = tEchoAb
        /\ WireStatus(Wire(c)) = s200
        /\ WireBody(Wire(c)) = <<"a", "b">>

\* C6: a Content-Length header on the wire gives the length of the body on
\* the wire.
C6_ContentLength ==
    \A c \in DOMAIN conns :
        Answered(c) =>
            \A v \in WireHeaderValues(Wire(c), sContentLength) :
                v = Sprintd(Len(WireBody(Wire(c))))

C6_Witness ==
    \E c \in DOMAIN conns :
        /\ Answered(c)
        /\ SentMethod(c) = sGET
        /\ SentTarget(c) = tFilesG
        /\ SentHeaderValues(c, sAcceptEncodingKey) = {sGzip}
        /\ WireStatus(Wire(c)) = s200
        /\ WireHeaderValues(Wire(c), sContentLength) = {<<"2">>}
        /\ WireBody(Wire(c)) = bXy

\* C3: GET /user-agent without a user-agent header line is answered 400
\* with the explanatory plain-text body; with one, 200 and the value of the
\* header in lowercase.
C3_UserAgent ==
    \A c \in DOMAIN conns :
        (Answered(c) /\ SentMethod(c) = sGET /\ SentTarget(c) = pUserAgent) =>
            LET sent == SentHeaderValues(c, sUserAgentKey)
                w == Wire(c)
            IN  IF sent = {}
                THEN /\ WireStatus(w) = s400
                     /\ WireHeaderValues(w, sContentType) = {sTextPlain}
                     /\ WireBody(w) = sUANotFound
                ELSE /\ WireStatus(w) = s200
                     /\ WireBody(w) \in {ToLower(v) : v \in sent}

\* A gzip stream starts with the bytes 0x1f 0x8b and is at least 18 bytes
\* long (10 of header, 8 of trailer).
IsGzipStream(b) ==
    /\ Len(b) >= 18
    /\ b[1] = "0x1f"
    /\ b[2] = "0x8b"

\* C5: a request to a registered route with Accept-Encoding: gzip is answered
\* with Content-Encoding: gzip and a body that is a gzip stream.
C5_GzipBody ==
    \A c \in DOMAIN conns :
        ( /\ Answered(c)
          /\ RegisteredRoute(c)
          /\ SentHeaderValues(c, sAcceptEncodingKey) = {sGzip} ) =>
            /\ WireHeaderValues(Wire(c), sContentEncoding) = {sGzip}
            /\ IsGzipStream(WireBody(Wire(c)))

\* The tokens of an accept-encoding value: commas removed, split on spaces.
EncodingTokens(value) ==
    Fields(SelectSeq(value, LAMBDA ch : ch # ","))

\* The request of connection c asks for gzip.
WantsGzip(c) ==
    /\ sAcceptEncodingKey \in DOMAIN conns[c].req.headers
    /\ LET tokens == EncodingTokens(conns[c].req.headers[sAcceptEncodingKey])
       IN  \E i \in 1..Len(tokens) : tokens[i] = sGzip

\* C9: the response of a handler carries Content-Encoding: gzip exactly when
\* gzip is among the tokens of the accept-encoding value; otherwise it is the
\* handler's status, headers and body, unmodified.
C9_Tokens ==
    \A c \in DOMAIN conns :
        (Answered(c) /\ conns[c].headersToWrite # <<>>) =>
            /\ WantsGzip(c)
                   <=> WireHeaderValues(Wire(c), sContentEncoding) = {sGzip}
            /\ ~WantsGzip(c) =>
                   Wire(c) = writeResponse(conns[c].res.statusCode,
                                 conns[c].res.reason, conns[c].res.body,
                                 ContentHeaders(conns[c].res))

\* The target is /files/<name>, <name> without "/".
IsFilePath(t) ==
    /\ Len(Split(t, sSlash)) = 3
    /\ Split(t, sSlash)[1] = <<>>
    /\ sSlash \o Split(t, sSlash)[2] = pFiles

FileName(t) ==
    Split(t, sSlash)[3]

\* Connection e read a POST /files/<name>.
PostTo(e, name) ==
    /\ HasRequestLine(e)
    /\ SentMethod(e) = sPOST
    /\ IsFilePath(SentTarget(e))
    /\ FileName(SentTarget(e)) = name

\* The handler of connection c has returned.
Handled(c) ==
    conns[c].pc \in {"Routed", "Negotiated", "Encoded", "Closed"}

\* C4: when the handler of a GET /files/<name> runs after the POST
\* /files/<name> of another connection has been handled, no other connection
\* posting to <name>, it returns 200 and the body that POST sent.
C4_RoundTrip ==
    [][\A c \in DOMAIN conns :
          ( /\ conns[c].pc = "Decoded"
            /\ conns'[c].pc = "Routed"
            /\ SentMethod(c) = sGET
            /\ IsFilePath(SentTarget(c)) ) =>
              \A d \in DOMAIN conns \ {c} :
                  ( /\ PostTo(d, FileName(SentTarget(c)))
                    /\ Handled(d)
                    /\ \A e \in DOMAIN conns \ {c, d} :
                           ~PostTo(e, FileName(SentTarget(c))) ) =>
                      /\ conns'[c].res.statusCode = 200
                      /\ conns'[c].res.body = SentBody(d)]_vars

\* The read of connection c failed, or its request line has fewer than two
\* fields.
Dropped(c) ==
    /\ c \in DOMAIN conns
    /\ \/ conns[c].rdErr
       \/ conns[c].pc # "Accepted" /\ Len(SentLine(c)) < 2

IsClosed(c) ==
    c \in DOMAIN conns /\ conns[c].pc = "Closed"

\* C7: a connection whose read fails or whose request line has fewer than
\* two fields gets no byte written and is closed; the accept loop goes on, and
\* the steps of that connection change no other connection, file or route.
C7_SilentDrop ==
    /\ [](\A c \in DOMAIN conns :
            Dropped(c) => /\ conns[c].out = <<>>
                          /\ conns[c].pc \in {"Read", "Closed"}
                          /\ mainpc = "accept")
    /\ \A c \in 1..MaxConns : Dropped(c) ~> IsClosed(c)
    /\ [][\A c \in DOMAIN conns :
            (Dropped(c)' /\ conns'[c] # conns[c]) =>
                /\ \A d \in DOMAIN conns \ {c} : conns'[d] = conns[d]
                /\ fs' = fs
                /\ routes' = routes
                /\ mainpc' = mainpc]_vars

C7_Witness ==
    \E c \in DOMAIN conns : \E d \in DOMAIN conns :
        /\ c < d
        /\ Dropped(c)
        /\ ~conns[c].rdErr
        /\ IsClosed(c)
        /\ IsClosed(d)
        /\ Answered(d)
        /\ WireStatus(Wire(d)) = s200

\* The place of a state in Accepted, Read, Decoded, Routed, Negotiated,
\* Encoded, Closed.
Rank(pc) ==
    CASE pc = "Accepted"   -> 0
      [] pc = "Read"       -> 1
      [] pc = "Decoded"    -> 2
      [] pc = "Routed"     -> 3
      [] pc = "Negotiated" -> 4
      [] pc = "Encoded"    -> 5
      [] pc = "Closed"     -> 6

\* C8 as stated: a connection that is closed has performed exactly one read
\* and exactly one write.
C8_Original ==
    \A c \in DOMAIN conns :
        conns[c].pc = "Closed" =>
            conns[c].nread = 1 /\ Len(conns[c].out) = 1

\* The request of connection c reaches the route lookup.
Decodable(c) ==
    HasRequestLine(c) /\ HasSegment(SentTarget(c))

\* C8 amended: a connection only moves forward in the order of the states,
\* one state at a time except for the early returns (Accepted or Read to
\* Closed) and the unknown route (Decoded to Encoded); it reads exactly once
\* and writes at most once, never before the read, exactly once when its
\* request reaches the route lookup and not at all otherwise; once its read
\* has returned it is eventually closed.
C8_Amended ==
    /\ [][\A c \in DOMAIN conns :
            conns'[c].pc # conns[c].pc =>
                \/ Rank(conns'[c].pc) = Rank(conns[c].pc) + 1
                \/ conns[c].pc \in {"Accepted", "Read"}
                       /\ conns'[c].pc = "Closed"
                \/ conns[c].pc = "Decoded" /\ conns'[c].pc = "Encoded"]_vars
    /\ [](\A c \in DOMAIN conns :
            /\ conns[c].nread = (IF conns[c].pc = "Accepted" THEN 0 ELSE 1)
            /\ Len(conns[c].out) <= 1
            /\ conns[c].out # <<>> =>
                   conns[c].nread = 1 /\ conns[c].pc \in {"Encoded", "Closed"}
            /\ conns[c].pc = "Closed" =>
                   (Len(conns[c].out) = 1 <=> Decodable(c)))
    /\ \A c \in 1..MaxConns :
           (c \in DOMAIN conns /\ conns[c].nread = 1) ~> IsClosed(c)

C8_Witness ==
    \E c \in DOMAIN conns : \E d \in DOMAIN conns :
        /\ IsClosed(c)
        /\ Len(conns[c].out) = 1
        /\ conns[c].headersToWrite # <<>>
        /\ IsClosed(d)
        /\ conns[d].nread = 1
        /\ conns[d].out = <<>>

\* The keys of the five registrations of main.
RegisteredKeys ==
    {Registrations[i].method \o Registrations[i].path :
        i \in 1..Len(Registrations)}

\* The request of connection c is for /files.
FileRoute(c) ==
    /\ HasRequestLine(c)
    /\ HasSegment(SentTarget(c))
    /\ sSlash \o FirstSegment(SentTarget(c)) = pFiles

=============================================================================
